---- MODULE Spec2Model ----
(***************************************************************************)
(* Gallery store, enrollment and matcher of the face recognition system.   *)
(*                                                                         *)
(* The persisted store is the pair of files of one data directory:         *)
(*   person_details.csv  - the record store, a sequence of rows            *)
(*   face_encodings.pkl  - the embedding store, a pickled dict id -> vector*)
(* Enrollment goes through DataManager.add_person,                         *)
(* SimpleDataManager.add_person or simple_register.save_person_data; each  *)
(* file access of these is one atomic step, so calls of different          *)
(* processes interleave between file accesses.                             *)
(*                                                                         *)
(* Lengths are in tenths: the vector <<6, 8>> stands for [0.6, 0.8] and    *)
(* the tolerance 6 for 0.6.                                                *)
(***************************************************************************)
EXTENDS Integers, Sequences, FiniteSets, TLC

----------------------------------------------------------------------------
(* Bounds of the model *)

\* enrollment calls started in one behaviour
MaxCalls == 2

----------------------------------------------------------------------------
(* Values *)

\* the enrolling callers: a process holding a store instance (a DataManager
\* or a SimpleDataManager) and a process calling save_person_data
Procs == {"inst", "fn"}

\* the two store classes
Classes == {"dm", "sdm"}

\* embeddings (dimension 2, tenths); all pairwise distances are whole tenths
Vectors == {<<0, 0>>, <<6, 0>>, <<12, 0>>, <<6, 8>>}

\* what the operator types at the prompts: every field is a string, the
\* optional ones are "" when skipped
Asha ==
  [name |-> "Asha", class_name |-> "CSE", roll_number |-> "101",
   email |-> "", phone |-> ""]

Ravi ==
  [name |-> "Ravi", class_name |-> "ECE", roll_number |-> "EC07",
   email |-> "ravi@example.com", phone |-> "+91-5550100"]

\* the arguments of an enrollment call: person_data and face_encoding
Enrollments ==
  { [person |-> Asha, vec |-> <<0, 0>>], [person |-> Ravi, vec |-> <<12, 0>>] }

\* the text fields of a person record
TextFields == {"name", "class_name", "roll_number", "email", "phone"}

\* the strings that pandas parses as integers
DigitStrings == {"101"}

\* typed cell values of a DataFrame read back from the CSV file
Str(s) == [t |-> "str", v |-> s]
Int64(s) == [t |-> "int64", v |-> s]
Float64(s) == [t |-> "float64", v |-> s]
NaN == [t |-> "nan", v |-> ""]

\* 1.0 in tenths
One == 10

\* a variant of the Unknown result that carries the full confidence
Unknown_confident ==
  [name |-> Str("Unknown Person"), class_name |-> Str("Unknown"),
   roll_number |-> Str("Unknown"), confidence |-> One]

\* the tuple appended for a face that is not identified
Unknown ==
  [name |-> Str("Unknown Person"), class_name |-> Str("Unknown"),
   roll_number |-> Str("Unknown"), confidence |-> 0]

----------------------------------------------------------------------------
(* Sequences and ordered dicts *)

RECURSIVE SeqMax(_)
SeqMax(s) ==
  IF Len(s) = 1 THEN Head(s)
  ELSE LET m == SeqMax(Tail(s)) IN IF Head(s) >= m THEN Head(s) ELSE m

\* a Python dict as the sequence of its items in insertion order
DictKeys(d) == {d[i].id : i \in 1..Len(d)}

DictGet(d, k) == d[CHOOSE i \in 1..Len(d) : d[i].id = k].vec

\* d[k] = v: a new key is appended, an existing key keeps its position
DictSet(d, k, v) ==
  IF k \in DictKeys(d)
  THEN [i \in 1..Len(d) |-> IF d[i].id = k THEN [id |-> k, vec |-> v] ELSE d[i]]
  ELSE Append(d, [id |-> k, vec |-> v])

----------------------------------------------------------------------------
(* The files *)

VARIABLES
  csv,      \* person_details.csv: [exists, rows]; rows are the cells written
  pkl,      \* face_encodings.pkl: [st, d]; st = "absent", "empty" or "ok"
  kind,     \* class of the store instance: "none" before construction
  pc,       \* pc[p]: position of caller p inside its enrollment call
  mem,      \* mem[p]: self.encodings of the instance (the local dict of fn)
  loc,      \* loc[p]: locals of the running call of p
  ncalls,   \* number of enrollment calls started
  log,      \* log[c]: input and outcome of call c
  rec_pc,   \* the recognizer process: "off", "init_csv", "load_encodings",
            \* "constructed", "ready", "crashed"
  rec_enc,  \* FaceRecognizer.data_manager.encodings
  known_encodings,
  known_person_ids,
  known_names,
  known_classes,
  known_roll_numbers,
  tolerance,
  best_match_index, \* of the last face matched (1-based; 0: not computed)
  face_info         \* result for the last face of recognize_faces_in_frame

VARIABLES
  run_pc,         \* run_recognition: "idle", "setup", "read", "process", "show",
                  \* "key", "finally", "stopped", "returned", "aborted"
  cap,            \* the capture of run_recognition: "none", "open", "failed",
                  \* "released"
  windows,        \* TRUE while a display window is shown
  frame_count,
  leaving,        \* why the loop of run_recognition is left
  detections,     \* what detection finds on the frame read: <<[box, enc]>>
  face_locations, \* the boxes recognize_faces_in_frame returned
  face_info_list, \* the results recognize_faces_in_frame returned
  drawn,          \* the boxes and results draw_face_info has overlaid
  devices,        \* the camera indices that open when run_recognition starts
  frames_processed \* frames_processed[i]: frame i of the loop went through
                  \* recognize_faces_in_frame

VARIABLES
  camera,       \* web_deploy.camera: "none" or "open"
  ncaptures,    \* capture handles created by init_camera
  camera_lock,  \* the consumer holding web_deploy.camera_lock, or Unlocked
  spc,          \* spc[c]: position of stream consumer c in generate_frames
  sframe,       \* sframe[c]: what get_frame returned last to c
  sdetections,  \* what detection found on the frame last given to
                \* web_deploy.recognize_faces_in_frame: <<[box, enc]>>
  overlay       \* the rectangles and labels it drew on that frame, in the
                \* order drawn: <<[box, name, color]>>

VARIABLES
  cpt_fn,           \* the capture function running: "none", "register",
                    \* "simple_register" or "data_manager"
  cpt_pc,           \* its position: "idle", "test", "open", "read", "key",
                    \* "done"
  camera_index,     \* the camera index it tries
  cpt_cap,          \* its capture: "none", "open", "failed", "released"
  capture_attempts,
  frames_read,      \* frames the current capture loop has read
  keys_pressed,     \* the keys pressed since the capture function started
  opened,           \* the camera indices the capture loops have opened
  face_encoding     \* what the capture function returned: "none", "encoding"

store == <<csv, pkl>>
enrollers == <<kind, pc, mem, loc, ncalls, log>>
gallery == <<known_encodings, known_person_ids, known_names, known_classes,
             known_roll_numbers>>
recognizer == <<rec_pc, rec_enc, gallery, tolerance, best_match_index, face_info>>
interactive == <<run_pc, cap, windows, frame_count, leaving, detections,
                 face_locations, face_info_list, drawn, devices,
                 frames_processed>>
stream == <<camera, ncaptures, camera_lock, spc, sframe, sdetections, overlay>>
capture == <<cpt_fn, cpt_pc, camera_index, cpt_cap, capture_attempts,
             frames_read, keys_pressed, opened, face_encoding>>
cameras == <<interactive, stream, capture>>
vars == <<store, enrollers, recognizer, cameras>>

NoLoc == [id |-> 0, df |-> <<>>, call |-> 0]

\* pd.read_csv: the rows of the file (the file exists whenever it is read)
ReadCsv == csv.rows

\* a variant of NextIdOf that counts the rows instead of taking the maximum
NextIdOf_count(df) == Len(df) + 1

\* df['id'].max() + 1, or 1 for a frame without rows
NextIdOf(df) ==
  IF Len(df) = 0 THEN 1
  ELSE SeqMax([i \in 1..Len(df) |-> df[i].id]) + 1

\* DataManager.get_next_id / SimpleDataManager.get_next_id
get_next_id == NextIdOf(ReadCsv)

\* the row add_person appends: person_data with its id
NewRow(p) ==
  [id |-> loc[p].id, person |-> log[loc[p].call].person,
   registration_date |-> loc[p].call]

\* stream consumers connected in one behaviour
MaxConsumers == 3

\* the stream consumers: requests of /video_feed being served
Consumers == 1..MaxConsumers

\* camera_lock is held by nobody
Unlocked == 0

\* no recognition loop, no stream consumer and no capture has started
InitCameras ==
  /\ run_pc = "idle"
  /\ cap = "none"
  /\ windows = FALSE
  /\ frame_count = 0
  /\ leaving = "none"
  /\ detections = <<>>
  /\ face_locations = <<>>
  /\ face_info_list = <<>>
  /\ drawn = <<>>
  /\ devices = {}
  /\ frames_processed = <<>>
  /\ camera = "none"
  /\ ncaptures = 0
  /\ camera_lock = Unlocked
  /\ spc = [c \in Consumers |-> "idle"]
  /\ sframe = [c \in Consumers |-> "none"]
  /\ sdetections = <<>>
  /\ overlay = <<>>
  /\ cpt_fn = "none"
  /\ cpt_pc = "idle"
  /\ camera_index = 0
  /\ cpt_cap = "none"
  /\ capture_attempts = 0
  /\ frames_read = 0
  /\ keys_pressed = {}
  /\ opened = <<>>
  /\ face_encoding = "none"

Init ==
  /\ InitCameras
  /\ csv = [exists |-> FALSE, rows |-> <<>>]
  /\ pkl = [st |-> "absent", d |-> <<>>]
  /\ kind = "none"
  /\ pc = [p \in Procs |-> "idle"]
  /\ mem = [p \in Procs |-> <<>>]
  /\ loc = [p \in Procs |-> NoLoc]
  /\ ncalls = 0
  /\ log = <<>>
  /\ rec_pc = "off"
  /\ rec_enc = <<>>
  /\ known_encodings = <<>>
  /\ known_person_ids = <<>>
  /\ known_names = <<>>
  /\ known_classes = <<>>
  /\ known_roll_numbers = <<>>
  /\ tolerance = 6
  /\ best_match_index = 0
  /\ face_info = [face |-> <<0, 0>>, st |-> "none", info |-> Unknown]

----------------------------------------------------------------------------
(* Construction of a store instance *)

\* DataManager.__init__ / SimpleDataManager.__init__: _init_csv writes the
\* header when the file is missing, _load_encodings unpickles the embedding
\* file. The test for the file and the write of the header are two file
\* accesses, so another process may write the file between them. A file that
\* holds no pickle (opened for writing by another process and not yet
\* dumped) makes pickle.load raise: DataManager lets the error escape the
\* constructor, SimpleDataManager returns {}.
LoadFails(k) == pkl.st = "empty" /\ k = "dm"

_load_encodings == IF pkl.st = "ok" THEN pkl.d ELSE <<>>

\* an _init_csv that writes the header whether or not the file exists
_init_csv_always == "init_csv"

\* the position after `if not os.path.exists(self.csv_path)`
_init_csv == IF csv.exists THEN "load_encodings" ELSE "init_csv"

\* df.to_csv(self.csv_path) of a frame with the columns and no rows
HeaderOnly == [exists |-> TRUE, rows |-> <<>>]

\* the constructor starts: os.path.exists(self.csv_path). The process keeps
\* the instance it has constructed; it constructs again only after a
\* constructor that raised. A call that is running now is no longer alone.
Construct(k) ==
  /\ pc["inst"] = "idle"
  /\ kind = "none"
  /\ kind' = k
  /\ pc' = [pc EXCEPT !["inst"] = _init_csv]
  /\ log' = [c \in 1..Len(log) |->
               IF log[c].res = "running" THEN [log[c] EXCEPT !.alone = FALSE]
               ELSE log[c]]
  /\ UNCHANGED <<csv, pkl, mem, loc, ncalls, recognizer, cameras>>

\* _init_csv found no file: the header is written
Construct_InitCsv ==
  /\ pc["inst"] = "init_csv"
  /\ csv' = HeaderOnly
  /\ pc' = [pc EXCEPT !["inst"] = "load_encodings"]
  /\ UNCHANGED <<pkl, kind, mem, loc, ncalls, log, recognizer, cameras>>

\* self.encodings = self._load_encodings()
Construct_LoadEncodings ==
  /\ pc["inst"] = "load_encodings"
  /\ kind' = IF LoadFails(kind) THEN "none" ELSE kind
  /\ mem' = [mem EXCEPT !["inst"] = IF LoadFails(kind) THEN <<>> ELSE _load_encodings]
  /\ pc' = [pc EXCEPT !["inst"] = "idle"]
  /\ UNCHANGED <<csv, pkl, loc, ncalls, log, recognizer, cameras>>

----------------------------------------------------------------------------
(* DataManager.add_person and SimpleDataManager.add_person *)

\* how a call ends whose CSV write failed: DataManager raises,
\* SimpleDataManager.add_person prints and returns -1
StorageErrorOutcome == IF kind = "dm" THEN "raised" ELSE "minus1"

\* how a call ends whose _save_encodings failed: DataManager raises,
\* SimpleDataManager._save_encodings swallows the error and add_person
\* returns the id
SaveErrorOutcome == IF kind = "dm" THEN "raised" ELSE "ok"

\* the call of p ends; fault is the write that failed in it ("none", "csv",
\* "pkl"). The entry of a call also records whether it began while no other
\* call was running (alone).
Finish(p, outcome, fault) ==
  /\ log' = [log EXCEPT ![loc[p].call].res = outcome,
                        ![loc[p].call].id = loc[p].id,
                        ![loc[p].call].fault = fault]
  /\ pc' = [pc EXCEPT ![p] = "idle"]
  /\ loc' = [loc EXCEPT ![p] = NoLoc]

Begin(p, e, id) ==
  /\ ncalls < MaxCalls
  /\ ncalls' = ncalls + 1
  /\ log' = Append(log, [proc |-> IF p = "fn" THEN "fn" ELSE kind,
                         person |-> e.person, vec |-> e.vec,
                         res |-> "running", id |-> 0, fault |-> "none",
                         alone |-> \A q \in Procs \ {p} : pc[q] = "idle"])
  /\ loc' = [loc EXCEPT ![p] = [id |-> id, df |-> <<>>, call |-> ncalls + 1]]
  /\ pc' = [pc EXCEPT ![p] = "read_csv"]

\* the call begins: person_id = self.get_next_id()
AddPerson_GetNextId ==
  /\ kind \in Classes
  /\ pc["inst"] = "idle"
  /\ \E e \in Enrollments : Begin("inst", e, get_next_id)
  /\ UNCHANGED <<csv, pkl, kind, mem, recognizer, cameras>>

\* df = pd.read_csv(self.csv_path)
AddPerson_ReadCsv ==
  /\ kind \in Classes
  /\ pc["inst"] = "read_csv"
  /\ loc' = [loc EXCEPT !["inst"].df = ReadCsv]
  /\ pc' = [pc EXCEPT !["inst"] = "to_csv"]
  /\ UNCHANGED <<csv, pkl, kind, mem, ncalls, log, recognizer, cameras>>

\* df = pd.concat([df, new_row]); df.to_csv(self.csv_path)
AddPerson_ToCsv ==
  /\ kind \in Classes
  /\ pc["inst"] = "to_csv"
  /\ csv' = [exists |-> TRUE, rows |-> Append(loc["inst"].df, NewRow("inst"))]
  /\ pc' = [pc EXCEPT !["inst"] = "save"]
  /\ UNCHANGED <<pkl, kind, mem, loc, ncalls, log, recognizer, cameras>>

\* df.to_csv fails (the file is left as it was)
AddPerson_ToCsvFails ==
  /\ kind \in Classes
  /\ pc["inst"] = "to_csv"
  /\ Finish("inst", StorageErrorOutcome, "csv")
  /\ UNCHANGED <<csv, pkl, kind, mem, ncalls, recognizer, cameras>>

\* self.encodings[person_id] = face_encoding
SetEncoding(p) == DictSet(mem[p], loc[p].id, log[loc[p].call].vec)

\* self.encodings[person_id] = face_encoding, then _save_encodings opens the
\* file with mode 'wb', which empties it
AddPerson_OpenPkl ==
  /\ kind \in Classes
  /\ pc["inst"] = "save"
  /\ mem' = [mem EXCEPT !["inst"] = SetEncoding("inst")]
  /\ pkl' = [st |-> "empty", d |-> <<>>]
  /\ pc' = [pc EXCEPT !["inst"] = "dump"]
  /\ UNCHANGED <<csv, kind, loc, ncalls, log, recognizer, cameras>>

\* self.encodings[person_id] = face_encoding, then the open in
\* _save_encodings fails (the file is left as it was)
AddPerson_OpenPklFails ==
  /\ kind \in Classes
  /\ pc["inst"] = "save"
  /\ mem' = [mem EXCEPT !["inst"] = SetEncoding("inst")]
  /\ Finish("inst", SaveErrorOutcome, "pkl")
  /\ UNCHANGED <<csv, pkl, kind, ncalls, recognizer, cameras>>

\* pickle.dump(self.encodings, f); return person_id
AddPerson_Dump ==
  /\ kind \in Classes
  /\ pc["inst"] = "dump"
  /\ pkl' = [st |-> "ok", d |-> mem["inst"]]
  /\ Finish("inst", "ok", "none")
  /\ UNCHANGED <<csv, kind, mem, ncalls, recognizer, cameras>>

----------------------------------------------------------------------------
(* simple_register.save_person_data *)

\* the id is computed from a first read of the CSV file, if there is one
SavePersonData_GetId ==
  /\ pc["fn"] = "idle"
  /\ \E e \in Enrollments :
       Begin("fn", e, IF csv.exists THEN get_next_id ELSE 1)
  /\ UNCHANGED <<csv, pkl, kind, mem, recognizer, cameras>>

\* the file is read a second time to append the row
SavePersonData_ReadCsv ==
  /\ pc["fn"] = "read_csv"
  /\ loc' = [loc EXCEPT !["fn"].df = IF csv.exists THEN ReadCsv ELSE <<>>]
  /\ pc' = [pc EXCEPT !["fn"] = "to_csv"]
  /\ UNCHANGED <<csv, pkl, kind, mem, ncalls, log, recognizer, cameras>>

SavePersonData_ToCsv ==
  /\ pc["fn"] = "to_csv"
  /\ csv' = [exists |-> TRUE, rows |-> Append(loc["fn"].df, NewRow("fn"))]
  /\ pc' = [pc EXCEPT !["fn"] = "load"]
  /\ UNCHANGED <<pkl, kind, mem, loc, ncalls, log, recognizer, cameras>>

\* any exception inside save_person_data is caught and None is returned
SavePersonData_ToCsvFails ==
  /\ pc["fn"] = "to_csv"
  /\ Finish("fn", "none", "csv")
  /\ UNCHANGED <<csv, pkl, kind, mem, ncalls, recognizer, cameras>>

\* encodings = pickle.load(f) if the file exists, else {};
\* encodings[person_id] = face_encoding
SavePersonData_LoadPkl ==
  /\ pc["fn"] = "load"
  /\ pkl.st # "empty"
  /\ mem' = [mem EXCEPT !["fn"] =
               DictSet(_load_encodings, loc["fn"].id, log[loc["fn"].call].vec)]
  /\ pc' = [pc EXCEPT !["fn"] = "open"]
  /\ UNCHANGED <<csv, pkl, kind, loc, ncalls, log, recognizer, cameras>>

\* pickle.load raises on a file that holds no pickle: None is returned after
\* the record was written
SavePersonData_LoadPklFails ==
  /\ pc["fn"] = "load"
  /\ pkl.st = "empty"
  /\ Finish("fn", "none", "pkl")
  /\ UNCHANGED <<csv, pkl, kind, mem, ncalls, recognizer, cameras>>

SavePersonData_OpenPkl ==
  /\ pc["fn"] = "open"
  /\ pkl' = [st |-> "empty", d |-> <<>>]
  /\ pc' = [pc EXCEPT !["fn"] = "dump"]
  /\ UNCHANGED <<csv, kind, mem, loc, ncalls, log, recognizer, cameras>>

SavePersonData_OpenPklFails ==
  /\ pc["fn"] = "open"
  /\ Finish("fn", "none", "pkl")
  /\ mem' = [mem EXCEPT !["fn"] = <<>>]
  /\ UNCHANGED <<csv, pkl, kind, ncalls, recognizer, cameras>>

SavePersonData_Dump ==
  /\ pc["fn"] = "dump"
  /\ pkl' = [st |-> "ok", d |-> mem["fn"]]
  /\ Finish("fn", "ok", "none")
  /\ mem' = [mem EXCEPT !["fn"] = <<>>]
  /\ UNCHANGED <<csv, kind, ncalls, recognizer, cameras>>

----------------------------------------------------------------------------

Enroll ==
  \/ \E k \in Classes : Construct(k)
  \/ Construct_InitCsv
  \/ Construct_LoadEncodings
  \/ AddPerson_GetNextId
  \/ AddPerson_ReadCsv
  \/ AddPerson_ToCsv
  \/ AddPerson_ToCsvFails
  \/ AddPerson_OpenPkl
  \/ AddPerson_OpenPklFails
  \/ AddPerson_Dump
  \/ SavePersonData_GetId
  \/ SavePersonData_ReadCsv
  \/ SavePersonData_ToCsv
  \/ SavePersonData_ToCsvFails
  \/ SavePersonData_LoadPkl
  \/ SavePersonData_LoadPklFails
  \/ SavePersonData_OpenPkl
  \/ SavePersonData_OpenPklFails
  \/ SavePersonData_Dump

----------------------------------------------------------------------------
(* Reading the record store *)

\* read_csv infers the type of a column from all its cells: an empty cell is
\* NaN; a column whose other cells are all integers is int64, and float64
\* when it also has an empty cell; any other column keeps its strings
Column(rows, f) == [i \in 1..Len(rows) |-> rows[i].person[f]]

HasBlank(col) == \E i \in 1..Len(col) : col[i] = ""

AllDigits(col) ==
  /\ \E i \in 1..Len(col) : col[i] # ""
  /\ \A i \in 1..Len(col) : col[i] = "" \/ col[i] \in DigitStrings

ReadCell(rows, i, f) ==
  LET col == Column(rows, f)
  IN  IF col[i] = "" THEN NaN
      ELSE IF AllDigits(col)
           THEN IF HasBlank(col) THEN Float64(col[i]) ELSE Int64(col[i])
           ELSE Str(col[i])

\* row i of pd.read_csv(csv_path) as a dict
ReadRow(rows, i) ==
  [id |-> rows[i].id,
   name |-> ReadCell(rows, i, "name"),
   class_name |-> ReadCell(rows, i, "class_name"),
   roll_number |-> ReadCell(rows, i, "roll_number"),
   email |-> ReadCell(rows, i, "email"),
   phone |-> ReadCell(rows, i, "phone"),
   registration_date |-> rows[i].registration_date]

\* a variant of get_person_by_id that takes the id as the position of the row
get_person_by_position(person_id) ==
  IF person_id \in 1..Len(ReadCsv) THEN <<ReadRow(ReadCsv, person_id)>> ELSE <<>>

\* get_person_by_id: the first row with the id as <<dict>>, None as <<>>
get_person_by_id(person_id) ==
  LET rows == ReadCsv
      hits == {i \in 1..Len(rows) : rows[i].id = person_id}
  IN  IF hits = {} THEN <<>>
      ELSE <<ReadRow(rows, CHOOSE i \in hits : \A j \in hits : i <= j)>>

\* get_all_encodings of an instance whose self.encodings is d
EncodingsList(d) == [i \in 1..Len(d) |-> d[i].vec]
PersonIdsList(d) == [i \in 1..Len(d) |-> d[i].id]

\* get_person_count of an instance whose self.encodings is d
get_person_count(d) == Len(d)

----------------------------------------------------------------------------
(* FaceRecognizer *)

Tolerances == {0, 6, 12}

\* FaceRecognizer.__init__ up to self.data_manager = DataManager(), whose
\* constructor starts with os.path.exists(self.csv_path)
FaceRecognizer_Init(tol) ==
  /\ rec_pc = "off"
  /\ tolerance' = tol
  /\ rec_pc' = _init_csv
  /\ UNCHANGED <<store, enrollers, cameras, rec_enc, gallery, best_match_index, face_info>>

\* _init_csv of the recognizer's DataManager found no file
FaceRecognizer_InitCsv ==
  /\ rec_pc = "init_csv"
  /\ csv' = HeaderOnly
  /\ rec_pc' = "load_encodings"
  /\ UNCHANGED <<pkl, enrollers, cameras, rec_enc, gallery, tolerance, best_match_index,
                 face_info>>

\* _load_encodings of the recognizer's DataManager: the constructor raises
\* when the embedding file holds no pickle
FaceRecognizer_LoadEncodings ==
  /\ rec_pc = "load_encodings"
  /\ rec_enc' = IF LoadFails("dm") THEN <<>> ELSE _load_encodings
  /\ rec_pc' = IF LoadFails("dm") THEN "crashed" ELSE "constructed"
  /\ UNCHANGED <<store, enrollers, cameras, gallery, tolerance, best_match_index, face_info>>

\* the records found for the ids, in order; ids without a record are skipped
RECURSIVE Resolved(_)
Resolved(ids) ==
  IF ids = <<>> THEN <<>>
  ELSE get_person_by_id(Head(ids)) \o Resolved(Tail(ids))

Field(people, f) == [i \in 1..Len(people) |-> people[i][f]]

\* load_known_faces: the lists of encodings and ids are replaced, the three
\* lists of details are appended to
load_known_faces ==
  /\ known_encodings' = EncodingsList(rec_enc)
  /\ known_person_ids' = PersonIdsList(rec_enc)
  /\ LET people == Resolved(PersonIdsList(rec_enc))
     IN  /\ known_names' = known_names \o Field(people, "name")
         /\ known_classes' = known_classes \o Field(people, "class_name")
         /\ known_roll_numbers' = known_roll_numbers \o Field(people, "roll_number")

FaceRecognizer_Load ==
  /\ rec_pc = "constructed"
  /\ load_known_faces
  /\ rec_pc' = "ready"
  /\ UNCHANGED <<store, enrollers, cameras, rec_enc, tolerance, best_match_index, face_info>>

\* the whole-number square root (exact on the distances of Vectors)
ISqrt(n) == CHOOSE r \in 0..n : r * r = n

\* np.linalg.norm(a - b)
Dist(a, b) ==
  ISqrt((a[1] - b[1]) * (a[1] - b[1]) + (a[2] - b[2]) * (a[2] - b[2]))

face_distance(encodings, face) ==
  [i \in 1..Len(encodings) |-> Dist(encodings[i], face)]

compare_faces(encodings, face, tol) ==
  [i \in 1..Len(encodings) |-> face_distance(encodings, face)[i] <= tol]

\* a variant of argmin that returns the last index of the minimum
argmin_last(ds) ==
  CHOOSE i \in 1..Len(ds) :
    /\ \A j \in 1..Len(ds) : ds[i] <= ds[j]
    /\ \A j \in (i + 1)..Len(ds) : ds[j] > ds[i]

\* np.argmin: the first index of the minimum
argmin(ds) ==
  CHOOSE i \in 1..Len(ds) :
    /\ \A j \in 1..Len(ds) : ds[i] <= ds[j]
    /\ \A j \in 1..(i - 1) : ds[j] > ds[i]

BestMatch(face) == argmin(face_distance(known_encodings, face))

Matched(face) ==
  \E i \in 1..Len(known_encodings) :
    compare_faces(known_encodings, face, tolerance)[i]

\* a variant of Identified that clamps the confidence into [0, 1]
Identified_clamped(best, face) ==
  [name |-> known_names[best], class_name |-> known_classes[best],
   roll_number |-> known_roll_numbers[best],
   confidence |->
     IF One - face_distance(known_encodings, face)[best] < 0 THEN 0
     ELSE One - face_distance(known_encodings, face)[best]]

\* the tuple appended for the best match: confidence = 1 - distance
Identified(best, face) ==
  [name |-> known_names[best], class_name |-> known_classes[best],
   roll_number |-> known_roll_numbers[best],
   confidence |-> One - face_distance(known_encodings, face)[best]]

\* the body of the loop of recognize_faces_in_frame for one face encoding:
\* st is "raised" when indexing the lists of details raises IndexError
MatchFace(face) ==
  IF known_encodings = <<>> THEN [st |-> "ok", info |-> Unknown]
  ELSE IF Matched(face)
       THEN LET best == BestMatch(face)
            IN  IF compare_faces(known_encodings, face, tolerance)[best]
                THEN IF best > Len(known_names)
                     THEN [st |-> "raised", info |-> Unknown]
                     ELSE [st |-> "ok", info |-> Identified(best, face)]
                ELSE [st |-> "ok", info |-> Unknown]
       ELSE [st |-> "ok", info |-> Unknown]

\* recognize_faces_in_frame on a frame showing one face; an IndexError
\* escapes run_recognition and ends the process
Recognize(face) ==
  /\ rec_pc = "ready"
  /\ face_info' = [face |-> face, st |-> MatchFace(face).st,
                   info |-> MatchFace(face).info]
  /\ best_match_index' =
       IF known_encodings # <<>> /\ Matched(face) THEN BestMatch(face) ELSE 0
  /\ rec_pc' = IF MatchFace(face).st = "raised" THEN "crashed" ELSE "ready"
  /\ UNCHANGED <<store, enrollers, cameras, rec_enc, gallery, tolerance>>

\* main() of recognize.py constructs FaceRecognizer(tolerance=0.6)
DefaultTolerance == 6

\* the start of a recognizer process beside the enrolling processes
Startup ==
  \/ FaceRecognizer_Init(DefaultTolerance)
  \/ FaceRecognizer_InitCsv
  \/ FaceRecognizer_LoadEncodings
  \/ FaceRecognizer_Load

Recognizer ==
  \/ \E tol \in Tolerances : FaceRecognizer_Init(tol)
  \/ FaceRecognizer_InitCsv
  \/ FaceRecognizer_LoadEncodings
  \/ FaceRecognizer_Load
  \/ \E face \in Vectors : Recognize(face)

\* the store under concurrent enrollment, and a recognizer starting up
Next == Enroll \/ Startup

Spec == Init /\ [][Next]_vars

\* a recognizer matching faces against the gallery it loaded
NextRecognizer == Enroll \/ Recognizer

SpecRecognizer == Init /\ [][NextRecognizer]_vars

----------------------------------------------------------------------------
(* The frame processor: recognize_faces_in_frame and draw_face_info *)

\* frames read from the camera
MaxFrames == 3

\* faces detected on one frame
MaxFaces == 2

\* reloads of the gallery in one run
MaxReloads == 1

\* boxes (top, right, bottom, left) found on the downscaled frame
Boxes == {<<10, 20, 30, 40>>, <<1, 7, 5, 2>>}

\* the embeddings of the faces in front of the camera
FaceVectors == {<<0, 0>>, <<6, 8>>}

Detection == [box : Boxes, enc : FaceVectors]

\* the detection outputs of a frame: up to MaxFaces faces, in detection order
Frames ==
  UNION {[1..n -> Detection] : n \in 0..MaxFaces}

\* the results of the loop over face_encodings, one per face
FrameResults(dets) == [i \in 1..Len(dets) |-> MatchFace(dets[i].enc)]

\* indexing the lists of details raises for some face of the frame
FrameRaises(dets) ==
  \E i \in 1..Len(dets) : FrameResults(dets)[i].st = "raised"

\* the results of s that name a person, in order
RECURSIVE Identifieds(_)
Identifieds(s) ==
  IF s = <<>> THEN <<>>
  ELSE IF Head(s).name = Str("Unknown Person")
       THEN Identifieds(Tail(s))
       ELSE <<Head(s)>> \o Identifieds(Tail(s))

\* a variant of recognize_faces_in_frame that returns no result for a face
\* it does not identify
recognize_identified_faces_in_frame(dets) ==
  [face_locations |-> [i \in 1..Len(dets) |-> dets[i].box],
   face_info |-> Identifieds([i \in 1..Len(dets) |-> FrameResults(dets)[i].info])]

\* recognize_faces_in_frame: the boxes as detected and one result per face
recognize_faces_in_frame(dets) ==
  [face_locations |-> [i \in 1..Len(dets) |-> dets[i].box],
   face_info |-> [i \in 1..Len(dets) |-> FrameResults(dets)[i].info]]

\* a variant of ScaleUp that doubles the coordinates
ScaleUp_by2(box) == <<box[1] * 2, box[2] * 2, box[3] * 2, box[4] * 2>>

\* (top*4, right*4, bottom*4, left*4)
ScaleUp(box) == <<box[1] * 4, box[2] * 4, box[3] * 4, box[4] * 4>>

Min(a, b) == IF a <= b THEN a ELSE b

\* draw_face_info: the boxes are scaled up and zipped with the results
draw_face_info(locations, infos) ==
  [i \in 1..Min(Len(locations), Len(infos)) |->
     [box |-> ScaleUp(locations[i]), info |-> infos[i]]]

----------------------------------------------------------------------------
(* Interactive mode: FaceRecognizer.run_recognition *)

\* the tolerance the 't' key switches to
Toggled(tol) == IF tol = 6 THEN 9 ELSE 6

Keys == {"q", "r", "t", "none"}

\* the camera indices a machine can have
CameraIndices == {0, 1, 2}

\* run_recognition is called: it returns at once on an empty gallery,
\* otherwise cv2.VideoCapture(0) opens camera index 0 when that index opens
\* on this machine, and run_recognition returns when it does not
RunRecognition_Open ==
  /\ rec_pc = "ready"
  /\ run_pc = "idle"
  /\ \/ /\ known_encodings = <<>>
        /\ run_pc' = "returned"
        /\ cap' = cap
        /\ devices' = devices
     \/ /\ known_encodings # <<>>
        /\ \E d \in SUBSET CameraIndices :
             /\ devices' = d
             /\ IF 0 \in d
                THEN run_pc' = "setup" /\ cap' = "open"
                ELSE run_pc' = "returned" /\ cap' = "failed"
  /\ UNCHANGED <<store, enrollers, recognizer, stream, capture, frames_processed,
                 windows, frame_count, leaving, detections, face_locations,
                 face_info_list, drawn>>

\* the prints and cap.set calls between the open and the try statement
RunRecognition_Setup ==
  /\ run_pc = "setup"
  /\ run_pc' = "read"
  /\ frame_count' = 0
  /\ UNCHANGED <<store, enrollers, recognizer, stream, capture, devices,
                 frames_processed, cap, windows, leaving,
                 detections, face_locations, face_info_list, drawn>>

\* ret, frame = cap.read() returns a frame
Loop_Read ==
  /\ run_pc = "read"
  /\ frame_count < MaxFrames
  /\ \E f \in Frames : detections' = f
  /\ run_pc' = "process"
  /\ UNCHANGED <<store, enrollers, recognizer, stream, capture, devices, frames_processed, cap, windows,
                 frame_count, leaving, face_locations, face_info_list, drawn>>

\* cap.read() returns ret = False: break
Loop_ReadFails ==
  /\ run_pc = "read"
  /\ run_pc' = "finally"
  /\ leaving' = "read_failed"
  /\ UNCHANGED <<store, enrollers, recognizer, stream, capture, devices, frames_processed, cap, windows,
                 frame_count, detections, face_locations, face_info_list, drawn>>

\* a test that sends every third frame to the processor
ProcessThisFrame_third == frame_count % 3 = 0

\* if frame_count % 2 == 0
ProcessThisFrame == frame_count % 2 = 0

\* a variant of Loop_Process whose frame processor tightens the tolerance
\* each time it has identified a face
Loop_Process_adapting ==
  /\ run_pc = "process"
  /\ face_locations' = recognize_faces_in_frame(detections).face_locations
  /\ face_info_list' = recognize_faces_in_frame(detections).face_info
  /\ drawn' = draw_face_info(
                recognize_faces_in_frame(detections).face_locations,
                recognize_faces_in_frame(detections).face_info)
  /\ tolerance' =
       IF \E i \in 1..Len(detections) :
            MatchFace(detections[i].enc).info # Unknown
       THEN 0 ELSE tolerance
  /\ frame_count' = frame_count + 1
  /\ frames_processed' = Append(frames_processed, TRUE)
  /\ run_pc' = "show"
  /\ UNCHANGED <<store, enrollers, stream, capture, devices, cap, windows,
                 detections, leaving, rec_pc, rec_enc, gallery,
                 best_match_index, face_info>>

\* every other frame goes through recognize_faces_in_frame and
\* draw_face_info; frame_count += 1. An IndexError raised while the details
\* of a match are read leaves the loop through the finally clause.
Loop_Process ==
  /\ run_pc = "process"
  /\ IF ProcessThisFrame
     THEN IF FrameRaises(detections)
          THEN /\ run_pc' = "finally"
               /\ leaving' = "index_error"
               /\ UNCHANGED <<frame_count, face_locations, face_info_list,
                              drawn, frames_processed>>
          ELSE /\ face_locations' = recognize_faces_in_frame(detections).face_locations
               /\ face_info_list' = recognize_faces_in_frame(detections).face_info
               /\ drawn' = draw_face_info(
                             recognize_faces_in_frame(detections).face_locations,
                             recognize_faces_in_frame(detections).face_info)
               /\ frame_count' = frame_count + 1
               /\ frames_processed' = Append(frames_processed, TRUE)
               /\ run_pc' = "show"
               /\ leaving' = leaving
     ELSE /\ frame_count' = frame_count + 1
          /\ frames_processed' = Append(frames_processed, FALSE)
          /\ run_pc' = "show"
          /\ UNCHANGED <<leaving, face_locations, face_info_list, drawn>>
  /\ UNCHANGED <<store, enrollers, recognizer, stream, capture, devices, cap, windows,
                 detections>>

\* face detection or embedding raises while the frame is processed
Loop_ProcessRaises ==
  /\ run_pc = "process"
  /\ ProcessThisFrame
  /\ run_pc' = "finally"
  /\ leaving' = "error"
  /\ UNCHANGED <<store, enrollers, recognizer, stream, capture, devices, frames_processed, cap, windows,
                 frame_count, detections, face_locations, face_info_list, drawn>>

\* cv2.imshow
Loop_Show ==
  /\ run_pc = "show"
  /\ windows' = TRUE
  /\ run_pc' = "key"
  /\ UNCHANGED <<store, enrollers, recognizer, stream, capture, devices, frames_processed, cap, frame_count,
                 leaving, detections, face_locations, face_info_list, drawn>>

\* key = cv2.waitKey(1) & 0xFF: 'q' breaks, 'r' reloads the gallery, 't'
\* toggles the tolerance
Loop_Key(key) ==
  /\ run_pc = "key"
  /\ key = "r" => Len(known_names) <= MaxReloads * Len(known_person_ids)
  /\ run_pc' = IF key = "q" THEN "finally" ELSE "read"
  /\ leaving' = IF key = "q" THEN "quit" ELSE leaving
  /\ IF key = "r" THEN load_known_faces ELSE UNCHANGED gallery
  /\ tolerance' = IF key = "t" THEN Toggled(tolerance) ELSE tolerance
  /\ UNCHANGED <<store, enrollers, stream, capture, devices, frames_processed, rec_pc, rec_enc, best_match_index,
                 face_info, cap, windows, frame_count, detections,
                 face_locations, face_info_list, drawn>>

\* KeyboardInterrupt: inside the try statement it is caught and the finally
\* clause runs; between the open and the try statement it leaves
\* run_recognition at once
Interrupt ==
  /\ run_pc \in {"setup", "read", "process", "show", "key"}
  /\ run_pc' = IF run_pc = "setup" THEN "aborted" ELSE "finally"
  /\ leaving' = "interrupt"
  /\ UNCHANGED <<store, enrollers, recognizer, stream, capture, devices, frames_processed, cap, windows,
                 frame_count, detections, face_locations, face_info_list, drawn>>

\* finally: cap.release(); cv2.destroyAllWindows()
RunRecognition_Finally ==
  /\ run_pc = "finally"
  /\ cap' = "released"
  /\ windows' = FALSE
  /\ run_pc' = "stopped"
  /\ UNCHANGED <<store, enrollers, recognizer, stream, capture, devices, frames_processed, frame_count, leaving,
                 detections, face_locations, face_info_list, drawn>>

Interactive ==
  \/ RunRecognition_Open
  \/ RunRecognition_Setup
  \/ Loop_Read
  \/ Loop_ReadFails
  \/ Loop_Process
  \/ Loop_ProcessRaises
  \/ Loop_Show
  \/ \E key \in Keys : Loop_Key(key)
  \/ Interrupt
  \/ RunRecognition_Finally

\* the store after save_person_data has enrolled Asha and then Ravi, and a
\* recognizer, constructed with one of the tolerances, that has loaded them
EnrolledRows ==
  <<[id |-> 1, person |-> Asha, registration_date |-> 1],
    [id |-> 2, person |-> Ravi, registration_date |-> 2]>>

EnrolledEncodings ==
  <<[id |-> 1, vec |-> <<0, 0>>], [id |-> 2, vec |-> <<12, 0>>]>>

EnrolledLog ==
  <<[proc |-> "fn", person |-> Asha, vec |-> <<0, 0>>, res |-> "ok", id |-> 1,
     fault |-> "none", alone |-> TRUE],
    [proc |-> "fn", person |-> Ravi, vec |-> <<12, 0>>, res |-> "ok", id |-> 2,
     fault |-> "none", alone |-> TRUE]>>

InitEnrolled ==
  /\ InitCameras
  /\ csv = [exists |-> TRUE, rows |-> EnrolledRows]
  /\ pkl = [st |-> "ok", d |-> EnrolledEncodings]
  /\ kind = "none"
  /\ pc = [p \in Procs |-> "idle"]
  /\ mem = [p \in Procs |-> <<>>]
  /\ loc = [p \in Procs |-> NoLoc]
  /\ ncalls = 2
  /\ log = EnrolledLog
  /\ rec_pc = "ready"
  /\ rec_enc = EnrolledEncodings
  /\ known_encodings = EncodingsList(EnrolledEncodings)
  /\ known_person_ids = PersonIdsList(EnrolledEncodings)
  /\ known_names = <<Str("Asha"), Str("Ravi")>>
  /\ known_classes = <<Str("CSE"), Str("ECE")>>
  /\ known_roll_numbers = <<Str("101"), Str("EC07")>>
  /\ tolerance \in Tolerances
  /\ best_match_index = 0
  /\ face_info = [face |-> <<0, 0>>, st |-> "none", info |-> Unknown]

\* a recognizer that started and loaded its gallery when Asha alone was
\* enrolled; save_person_data has enrolled Ravi since
InitEnrolledSince ==
  /\ InitCameras
  /\ csv = [exists |-> TRUE, rows |-> EnrolledRows]
  /\ pkl = [st |-> "ok", d |-> EnrolledEncodings]
  /\ kind = "none"
  /\ pc = [p \in Procs |-> "idle"]
  /\ mem = [p \in Procs |-> <<>>]
  /\ loc = [p \in Procs |-> NoLoc]
  /\ ncalls = 2
  /\ log = EnrolledLog
  /\ rec_pc = "ready"
  /\ rec_enc = SubSeq(EnrolledEncodings, 1, 1)
  /\ known_encodings = EncodingsList(SubSeq(EnrolledEncodings, 1, 1))
  /\ known_person_ids = PersonIdsList(SubSeq(EnrolledEncodings, 1, 1))
  /\ known_names = <<Str("Asha")>>
  /\ known_classes = <<Str("CSE")>>
  /\ known_roll_numbers = <<Str("101")>>
  /\ tolerance = DefaultTolerance
  /\ best_match_index = 0
  /\ face_info = [face |-> <<0, 0>>, st |-> "none", info |-> Unknown]

\* a recognizer started on a data directory where nobody is enrolled
InitNoneEnrolled ==
  /\ InitCameras
  /\ csv = HeaderOnly
  /\ pkl = [st |-> "absent", d |-> <<>>]
  /\ kind = "none"
  /\ pc = [p \in Procs |-> "idle"]
  /\ mem = [p \in Procs |-> <<>>]
  /\ loc = [p \in Procs |-> NoLoc]
  /\ ncalls = 0
  /\ log = <<>>
  /\ rec_pc = "ready"
  /\ rec_enc = <<>>
  /\ known_encodings = <<>>
  /\ known_person_ids = <<>>
  /\ known_names = <<>>
  /\ known_classes = <<>>
  /\ known_roll_numbers = <<>>
  /\ tolerance = DefaultTolerance
  /\ best_match_index = 0
  /\ face_info = [face |-> <<0, 0>>, st |-> "none", info |-> Unknown]

\* interactive mode of a recognizer that has loaded its gallery
SpecInteractive ==
  (InitEnrolled \/ InitEnrolledSince \/ InitNoneEnrolled)
    /\ [][Interactive]_vars

----------------------------------------------------------------------------
(* Streamed mode: get_frame and generate_frames of web_deploy *)

\* the label of web_deploy.recognize_faces_in_frame for one face encoding,
\* matched with tolerance 0.6 against get_all_encodings of data_manager
WebName(face) ==
  LET known_encs == EncodingsList(mem["inst"])
      known_ids == PersonIdsList(mem["inst"])
      matches == compare_faces(known_encs, face, 6)
  IN  IF \E i \in 1..Len(matches) : matches[i]
      THEN LET best == argmin(face_distance(known_encs, face))
           IN  IF matches[best]
               THEN LET person_data == get_person_by_id(known_ids[best])
                    IN  IF person_data # <<>> THEN person_data[1].name
                        ELSE Str("Unknown")
               ELSE Str("Unknown Person")
      ELSE Str("Unknown Person")

\* color = (0, 255, 0) if name != "Unknown Person" else (0, 0, 255)
WebColor(name) == IF name # Str("Unknown Person") THEN "green" ELSE "red"

\* the drawing loop, which is inside the loop over the face encodings: for
\* the name of each face in turn, every box of the frame is drawn with it
DrawAll(locations, names) ==
  [k \in 1..(Len(names) * Len(locations)) |->
     LET f == ((k - 1) \div Len(locations)) + 1
         b == ((k - 1) % Len(locations)) + 1
     IN  [box |-> locations[b], name |-> names[f], color |-> WebColor(names[f])]]

\* web_deploy.recognize_faces_in_frame: nothing is drawn when nobody is
\* enrolled
web_recognize_faces_in_frame(dets) ==
  IF mem["inst"] = <<>> THEN <<>>
  ELSE DrawAll([i \in 1..Len(dets) |-> ScaleUp(dets[i].box)],
               [i \in 1..Len(dets) |-> WebName(dets[i].enc)])

\* the frames of the stream: no face, one face, or two faces in two
\* different boxes, each face with any of the encodings
StreamFrames ==
  {f \in Frames :
     /\ Len(f) >= 1 => f[1].box = <<10, 20, 30, 40>>
     /\ Len(f) >= 2 => f[2].box = <<1, 7, 5, 2>>}

\* a request of /video_feed arrives at the server, which has constructed its
\* data_manager: generate_frames starts
Connect(c) ==
  /\ kind = "dm"
  /\ pc["inst"] = "idle"
  /\ spc[c] = "idle"
  /\ spc' = [spc EXCEPT ![c] = "get_frame"]
  /\ UNCHANGED <<store, enrollers, recognizer, interactive, capture, sdetections, overlay, camera, ncaptures,
                 camera_lock, sframe>>

\* a variant of GetFrame_Acquire that does not wait for the lock
GetFrame_Enter(c) ==
  /\ spc[c] = "get_frame"
  /\ camera_lock' = c
  /\ spc' = [spc EXCEPT ![c] = "locked"]
  /\ UNCHANGED <<store, enrollers, recognizer, interactive, capture, sdetections, overlay, camera, ncaptures,
                 sframe>>

\* with camera_lock: the lock is acquired when it is free
GetFrame_Acquire(c) ==
  /\ spc[c] = "get_frame"
  /\ camera_lock = Unlocked
  /\ camera_lock' = c
  /\ spc' = [spc EXCEPT ![c] = "locked"]
  /\ UNCHANGED <<store, enrollers, recognizer, interactive, capture, sdetections, overlay, camera, ncaptures,
                 sframe>>

\* a variant of GetFrame_InitCamera that opens the camera without testing
\* whether it is open already
GetFrame_InitCamera_unchecked(c) ==
  /\ spc[c] = "locked"
  /\ camera' = "open"
  /\ ncaptures' = ncaptures + 1
  /\ spc' = [spc EXCEPT ![c] = "read"]
  /\ UNCHANGED <<store, enrollers, recognizer, interactive, capture, sdetections, overlay,
                 camera_lock, sframe>>

\* if camera is None: init_camera()
GetFrame_InitCamera(c) ==
  /\ spc[c] = "locked"
  /\ camera' = "open"
  /\ ncaptures' = IF camera = "none" THEN ncaptures + 1 ELSE ncaptures
  /\ spc' = [spc EXCEPT ![c] = "read"]
  /\ UNCHANGED <<store, enrollers, recognizer, interactive, capture, sdetections, overlay, camera_lock, sframe>>

\* a variant of GetFrame_Read that returns the frame with the lock held
GetFrame_Read_locked(c) ==
  /\ spc[c] = "read"
  /\ sframe' = [sframe EXCEPT ![c] = "frame"]
  /\ spc' = [spc EXCEPT ![c] = "got"]
  /\ UNCHANGED <<store, enrollers, recognizer, interactive, capture, sdetections, overlay, camera, ncaptures,
                 camera_lock>>

\* ret, frame = camera.read() returns a frame; the lock is released
GetFrame_Read(c) ==
  /\ spc[c] = "read"
  /\ sframe' = [sframe EXCEPT ![c] = "frame"]
  /\ camera_lock' = Unlocked
  /\ spc' = [spc EXCEPT ![c] = "got"]
  /\ UNCHANGED <<store, enrollers, recognizer, interactive, capture, sdetections, overlay, camera, ncaptures>>

\* camera.read() returns ret = False: get_frame returns None
GetFrame_ReadFails(c) ==
  /\ spc[c] = "read"
  /\ sframe' = [sframe EXCEPT ![c] = "failed"]
  /\ camera_lock' = Unlocked
  /\ spc' = [spc EXCEPT ![c] = "got"]
  /\ UNCHANGED <<store, enrollers, recognizer, interactive, capture, sdetections, overlay, camera, ncaptures>>

\* if frame is None: continue
Generate_Continue(c) ==
  /\ spc[c] = "got"
  /\ sframe[c] = "failed"
  /\ spc' = [spc EXCEPT ![c] = "get_frame"]
  /\ UNCHANGED <<store, enrollers, recognizer, interactive, capture, sdetections, overlay, camera, ncaptures,
                 camera_lock, sframe>>

\* frame = recognize_faces_in_frame(frame), which catches its errors: the
\* frame comes back with the overlay drawn on it
Generate_Recognize(c) ==
  /\ spc[c] = "got"
  /\ sframe[c] = "frame"
  /\ \E f \in StreamFrames :
       /\ sdetections' = f
       /\ overlay' = web_recognize_faces_in_frame(f)
  /\ spc' = [spc EXCEPT ![c] = "encode"]
  /\ UNCHANGED <<store, enrollers, recognizer, interactive, capture, camera,
                 ncaptures, camera_lock, sframe>>

\* cv2.imencode succeeds and the frame is yielded
Generate_Yield(c) ==
  /\ spc[c] = "encode"
  /\ spc' = [spc EXCEPT ![c] = "yield"]
  /\ UNCHANGED <<store, enrollers, recognizer, interactive, capture, sdetections, overlay, camera, ncaptures,
                 camera_lock, sframe>>

\* cv2.imencode returns ret = False: continue
Generate_EncodeFails(c) ==
  /\ spc[c] = "encode"
  /\ spc' = [spc EXCEPT ![c] = "get_frame"]
  /\ UNCHANGED <<store, enrollers, recognizer, interactive, capture, sdetections, overlay, camera, ncaptures,
                 camera_lock, sframe>>

\* a variant of Generate_Next in which the generator finishes after a frame
Generate_Next_finish(c) ==
  /\ spc[c] = "yield"
  /\ spc' = [spc EXCEPT ![c] = "closed"]
  /\ UNCHANGED <<store, enrollers, recognizer, interactive, capture, sdetections, overlay, camera, ncaptures,
                 camera_lock, sframe>>

\* the consumer asks for the next frame
Generate_Next(c) ==
  /\ spc[c] = "yield"
  /\ spc' = [spc EXCEPT ![c] = "get_frame"]
  /\ UNCHANGED <<store, enrollers, recognizer, interactive, capture, sdetections, overlay, camera, ncaptures,
                 camera_lock, sframe>>

\* a variant of Disconnect that stops the generator wherever it is
Disconnect_anywhere(c) ==
  /\ spc[c] \in {"locked", "read", "got", "encode", "yield"}
  /\ spc' = [spc EXCEPT ![c] = "closed"]
  /\ UNCHANGED <<store, enrollers, recognizer, interactive, capture, sdetections, overlay, camera, ncaptures,
                 camera_lock, sframe>>

\* the consumer disconnects: the generator is closed at its yield
Disconnect(c) ==
  /\ spc[c] = "yield"
  /\ spc' = [spc EXCEPT ![c] = "closed"]
  /\ UNCHANGED <<store, enrollers, recognizer, interactive, capture, sdetections, overlay, camera, ncaptures,
                 camera_lock, sframe>>

Stream ==
  \E c \in Consumers :
    \/ Connect(c)
    \/ GetFrame_Acquire(c)
    \/ GetFrame_InitCamera(c)
    \/ GetFrame_Read(c)
    \/ GetFrame_ReadFails(c)
    \/ Generate_Continue(c)
    \/ Generate_Recognize(c)
    \/ Generate_Yield(c)
    \/ Generate_EncodeFails(c)
    \/ Generate_Next(c)
    \/ Disconnect(c)

\* web_deploy has constructed its data_manager on the store in which
\* save_person_data has enrolled Asha and then Ravi
InitServing ==
  /\ InitCameras
  /\ csv = [exists |-> TRUE, rows |-> EnrolledRows]
  /\ pkl = [st |-> "ok", d |-> EnrolledEncodings]
  /\ kind = "dm"
  /\ pc = [p \in Procs |-> "idle"]
  /\ mem = [p \in Procs |-> IF p = "inst" THEN EnrolledEncodings ELSE <<>>]
  /\ loc = [p \in Procs |-> NoLoc]
  /\ ncalls = 2
  /\ log = EnrolledLog
  /\ rec_pc = "off"
  /\ rec_enc = <<>>
  /\ known_encodings = <<>>
  /\ known_person_ids = <<>>
  /\ known_names = <<>>
  /\ known_classes = <<>>
  /\ known_roll_numbers = <<>>
  /\ tolerance = 6
  /\ best_match_index = 0
  /\ face_info = [face |-> <<0, 0>>, st |-> "none", info |-> Unknown]

\* web_deploy has constructed its data_manager on an empty data directory
InitServingEmpty ==
  /\ InitCameras
  /\ csv = HeaderOnly
  /\ pkl = [st |-> "absent", d |-> <<>>]
  /\ kind = "dm"
  /\ pc = [p \in Procs |-> "idle"]
  /\ mem = [p \in Procs |-> <<>>]
  /\ loc = [p \in Procs |-> NoLoc]
  /\ ncalls = 0
  /\ log = <<>>
  /\ rec_pc = "off"
  /\ rec_enc = <<>>
  /\ known_encodings = <<>>
  /\ known_person_ids = <<>>
  /\ known_names = <<>>
  /\ known_classes = <<>>
  /\ known_roll_numbers = <<>>
  /\ tolerance = 6
  /\ best_match_index = 0
  /\ face_info = [face |-> <<0, 0>>, st |-> "none", info |-> Unknown]

\* the web server serving its stream consumers
SpecStream == (InitServing \/ InitServingEmpty) /\ [][Stream]_vars

\* the steps of a stream whose camera delivers every frame, whose JPEG
\* encoding succeeds and whose consumers stay connected
Delivering(c) ==
  \/ GetFrame_InitCamera(c)
  \/ GetFrame_Read(c)
  \/ Generate_Recognize(c)
  \/ Generate_Yield(c)
  \/ Generate_Next(c)

StreamDelivering ==
  \E c \in Consumers :
    \/ Connect(c)
    \/ GetFrame_Acquire(c)
    \/ Delivering(c)

\* every thread of the threaded server keeps running, and a thread that
\* waits for camera_lock while the lock is released again and again gets it
StreamFairness ==
  \A c \in Consumers :
    /\ WF_vars(Delivering(c))
    /\ SF_vars(GetFrame_Acquire(c))

\* the two frame processors at work: run_recognition of a recognizer that
\* has loaded its gallery, or the web server serving its stream consumers
SpecProcessing ==
  (InitEnrolled \/ InitEnrolledSince \/ InitNoneEnrolled \/ InitServing
     \/ InitServingEmpty)
    /\ [][Interactive \/ Stream]_vars

\* the web server with its consumers coming and going, every thread running
\* and camera_lock granted fairly
SpecStreamFair ==
  (InitServing \/ InitServingEmpty) /\ [][Stream]_vars /\ StreamFairness

\* the web server streaming from a camera that keeps delivering, under a
\* fair grant of camera_lock
SpecStreamLive ==
  (InitServing \/ InitServingEmpty) /\ [][StreamDelivering]_vars
    /\ StreamFairness

----------------------------------------------------------------------------
(* The capture loops of enrollment: register.capture_face_encoding with
   capture_from_webcam, simple_register.capture_face_encoding with
   test_camera, and DataManager._capture_from_webcam *)

\* max_attempts = 100 of register.capture_from_webcam and max_attempts =
\* 300 of simple_register.capture_face_encoding, scaled down
MaxAttemptsRegister == 2
MaxAttemptsSimple == 3

\* the frames the model lets the loop of DataManager._capture_from_webcam
\* read; the loop itself has no maximum
MaxReads == 4

CaptureFunctions == {"register", "simple_register", "data_manager"}

CaptureKeys == {"space", "esc", "none"}

max_attempts ==
  IF cpt_fn = "register" THEN MaxAttemptsRegister ELSE MaxAttemptsSimple

\* `while capture_attempts < max_attempts` of the two scripts, `while True`
\* of DataManager
LoopCondition ==
  IF cpt_fn = "data_manager" THEN TRUE ELSE capture_attempts < max_attempts

\* the capture loop has returned None: register.capture_face_encoding goes
\* on with the next camera index of [0, 1, 2], the other two return None
ReturnNone ==
  IF cpt_fn = "register" /\ camera_index < 2
  THEN cpt_pc' = "open" /\ camera_index' = camera_index + 1
  ELSE cpt_pc' = "done" /\ camera_index' = camera_index

\* a capture function is called
Capture_Start(fn) ==
  /\ cpt_pc = "idle"
  /\ cpt_fn' = fn
  /\ cpt_pc' = IF fn = "simple_register" THEN "test" ELSE "open"
  /\ UNCHANGED <<store, enrollers, recognizer, interactive, stream,
                 camera_index, cpt_cap, capture_attempts, frames_read,
                 keys_pressed, opened, face_encoding>>

\* simple_register.test_camera: the index is opened, one frame is read and
\* the camera is released; the first index that works is returned, None
\* when none of [0, 1, 2] works
TestCamera(works) ==
  /\ cpt_pc = "test"
  /\ IF works
     THEN cpt_pc' = "open" /\ camera_index' = camera_index
     ELSE IF camera_index < 2
          THEN cpt_pc' = "test" /\ camera_index' = camera_index + 1
          ELSE cpt_pc' = "done" /\ camera_index' = camera_index
  /\ UNCHANGED <<store, enrollers, recognizer, interactive, stream, cpt_fn,
                 cpt_cap, capture_attempts, frames_read, keys_pressed,
                 opened, face_encoding>>

\* cap = cv2.VideoCapture(camera_index) opens; capture_attempts = 0
Capture_Open ==
  /\ cpt_pc = "open"
  /\ cpt_cap' = "open"
  /\ opened' = Append(opened, camera_index)
  /\ capture_attempts' = 0
  /\ frames_read' = 0
  /\ cpt_pc' = "read"
  /\ UNCHANGED <<store, enrollers, recognizer, interactive, stream, cpt_fn,
                 camera_index, keys_pressed, face_encoding>>

\* cap.isOpened() is false: return None; the finally clause of the two
\* scripts releases the capture object
Capture_OpenFails ==
  /\ cpt_pc = "open"
  /\ cpt_cap' = IF cpt_fn = "data_manager" THEN "failed" ELSE "released"
  /\ ReturnNone
  /\ UNCHANGED <<store, enrollers, recognizer, interactive, stream, cpt_fn,
                 capture_attempts, frames_read, keys_pressed, opened,
                 face_encoding>>

\* ret, frame = cap.read() returns a frame, which is shown
Capture_Read ==
  /\ cpt_pc = "read"
  /\ LoopCondition
  /\ frames_read < MaxReads
  /\ frames_read' = frames_read + 1
  /\ cpt_pc' = "key"
  /\ UNCHANGED <<store, enrollers, recognizer, interactive, stream, cpt_fn,
                 camera_index, cpt_cap, capture_attempts, keys_pressed,
                 opened, face_encoding>>

\* cap.read() returns ret = False: break, the camera is released
Capture_ReadFails ==
  /\ cpt_pc = "read"
  /\ LoopCondition
  /\ cpt_cap' = "released"
  /\ ReturnNone
  /\ UNCHANGED <<store, enrollers, recognizer, interactive, stream, cpt_fn,
                 capture_attempts, frames_read, keys_pressed, opened,
                 face_encoding>>

\* capture_attempts has reached max_attempts: the loop ends, return None,
\* the camera is released
Capture_MaxReached ==
  /\ cpt_pc = "read"
  /\ ~LoopCondition
  /\ cpt_cap' = "released"
  /\ ReturnNone
  /\ UNCHANGED <<store, enrollers, recognizer, interactive, stream, cpt_fn,
                 capture_attempts, frames_read, keys_pressed, opened,
                 face_encoding>>

\* key = cv2.waitKey(1) & 0xFF: SPACE on a frame whose face gives an
\* encoding returns it, ESC breaks, anything else goes on with the next
\* frame; the two scripts count the frame in capture_attempts
Capture_Key(key, captures) ==
  /\ cpt_pc = "key"
  /\ keys_pressed' = IF key = "none" THEN keys_pressed
                     ELSE keys_pressed \cup {key}
  /\ IF key = "space" /\ captures
     THEN /\ face_encoding' = "encoding"
          /\ cpt_cap' = "released"
          /\ cpt_pc' = "done"
          /\ UNCHANGED <<camera_index, capture_attempts>>
     ELSE IF key = "esc"
          THEN /\ cpt_cap' = "released"
               /\ ReturnNone
               /\ UNCHANGED <<capture_attempts, face_encoding>>
          ELSE /\ capture_attempts' = IF cpt_fn = "data_manager"
                                      THEN capture_attempts
                                      ELSE capture_attempts + 1
               /\ cpt_pc' = "read"
               /\ UNCHANGED <<camera_index, cpt_cap, face_encoding>>
  /\ UNCHANGED <<store, enrollers, recognizer, interactive, stream, cpt_fn,
                 frames_read, opened>>

Capture ==
  \/ \E fn \in CaptureFunctions : Capture_Start(fn)
  \/ \E works \in BOOLEAN : TestCamera(works)
  \/ Capture_Open
  \/ Capture_OpenFails
  \/ Capture_Read
  \/ Capture_ReadFails
  \/ Capture_MaxReached
  \/ \E key \in CaptureKeys, captures \in BOOLEAN : Capture_Key(key, captures)

\* one call of a capture function of enrollment
SpecCapture == Init /\ [][Capture]_vars

----------------------------------------------------------------------------
(* Properties of the matcher *)

\* the person whose face gives the embedding v
PersonOfVec(v) == (CHOOSE e \in Enrollments : e.vec = v).person

\* the details reported are those the person was enrolled with
Reports(info, person) ==
  /\ info.name.v = person.name
  /\ info.class_name.v = person.class_name
  /\ info.roll_number.v = person.roll_number

\* a face was matched against the gallery now loaded
MatchedOnce == face_info.st # "none"

DistanceTo(i) == Dist(known_encodings[i], face_info.face)

MinDistance ==
  CHOOSE d \in {DistanceTo(i) : i \in 1..Len(known_encodings)} :
    \A i \in 1..Len(known_encodings) : d <= DistanceTo(i)

FirstNearest ==
  CHOOSE i \in 1..Len(known_encodings) :
    /\ DistanceTo(i) = MinDistance
    /\ \A j \in 1..Len(known_encodings) : DistanceTo(j) = MinDistance => i <= j

\* C1: for a non-empty gallery the matcher returns Identified exactly when
\* the minimum distance is <= the tolerance; it then reports the person who
\* was enrolled with the embedding attaining the minimum, with confidence
\* 1 - min_distance; otherwise it returns Unknown with confidence 0.0.
C1_IdentifiedIffWithinTolerance ==
  (MatchedOnce /\ known_encodings # <<>>) =>
    /\ face_info.st = "ok"
    /\ IF MinDistance <= tolerance
       THEN /\ face_info.info.confidence = One - MinDistance
            /\ Reports(face_info.info, PersonOfVec(known_encodings[FirstNearest]))
       ELSE face_info.info =
              [name |-> Str("Unknown Person"), class_name |-> Str("Unknown"),
               roll_number |-> Str("Unknown"), confidence |-> 0]

\* C2: among the gallery entries at the minimum distance from the probe the
\* matcher selects the first one of the sequence returned by
\* get_all_encodings.
C2_TieSelectsFirstOccurrence ==
  (MatchedOnce /\ best_match_index # 0) =>
    /\ known_encodings = EncodingsList(rec_enc)
    /\ known_person_ids = PersonIdsList(rec_enc)
    /\ best_match_index \in 1..Len(known_encodings)
    /\ DistanceTo(best_match_index) = MinDistance
    /\ \A j \in 1..Len(known_encodings) :
         DistanceTo(j) = MinDistance => best_match_index <= j

\* two different entries are equidistant from the probe and within the
\* tolerance, and the first was selected
C2_Witness ==
  /\ face_info.st = "ok"
  /\ Len(known_encodings) = 2
  /\ known_encodings[1] # known_encodings[2]
  /\ DistanceTo(1) = DistanceTo(2)
  /\ DistanceTo(1) <= tolerance
  /\ best_match_index = 1

\* C3: with an empty gallery every face is Unknown with confidence 0.0,
\* whatever the probe and the tolerance.
C3_EmptyGalleryUnknown ==
  (MatchedOnce /\ known_encodings = <<>>) =>
    /\ face_info.st = "ok"
    /\ best_match_index = 0
    /\ face_info.info =
         [name |-> Str("Unknown Person"), class_name |-> Str("Unknown"),
          roll_number |-> Str("Unknown"), confidence |-> 0]

\* a face was matched against an empty gallery under the widest tolerance
C3_Witness ==
  /\ face_info.st = "ok"
  /\ rec_pc = "ready"
  /\ known_encodings = <<>>
  /\ face_info.face = <<6, 8>>
  /\ tolerance = 12

\* C4: a probe equal to the vector of a gallery entry is Identified with that
\* entry's person and confidence 1.0, for every tolerance >= 0.
C4_ExactProbeIdentified ==
  (MatchedOnce /\ \E i \in 1..Len(known_encodings) :
                    known_encodings[i] = face_info.face) =>
    /\ face_info.st = "ok"
    /\ face_info.info.confidence = One
    /\ Reports(face_info.info, PersonOfVec(face_info.face))

----------------------------------------------------------------------------
(* Properties of the gallery store *)

Rows == csv.rows

RowIds == {Rows[i].id : i \in 1..Len(Rows)}

Quiescent == \A p \in Procs : pc[p] = "idle"

\* call c has returned an id and none of its writes failed
Completed(c) == log[c].res = "ok" /\ log[c].fault = "none"

RecordOf(c) ==
  [id |-> log[c].id,
   name |-> Str(log[c].person.name),
   class_name |-> Str(log[c].person.class_name),
   roll_number |-> Str(log[c].person.roll_number),
   email |-> Str(log[c].person.email),
   phone |-> Str(log[c].person.phone),
   registration_date |-> c]

\* C6: after add_person(r, e) has returned id, get_person_by_id(id) returns a
\* record whose fields equal r (plus the id) and get_all_encodings holds the
\* pair (id, e) exactly once. Stated for a call that ran alone.
C6_RoundTrip ==
  (ncalls = 1 /\ Completed(1) /\ log[1].proc \in Classes /\ kind \in Classes) =>
    /\ get_person_by_id(log[1].id) = <<RecordOf(1)>>
    /\ Cardinality({i \in 1..Len(mem["inst"]) :
                      /\ PersonIdsList(mem["inst"])[i] = log[1].id
                      /\ EncodingsList(mem["inst"])[i] = log[1].vec}) = 1

\* the record written by call c is in the record store
HasRecord(c) == \E i \in 1..Len(Rows) : Rows[i].registration_date = c

\* the embedding store holds an embedding under the id of call c
HasEmbedding(c) == pkl.st = "ok" /\ log[c].id \in DictKeys(pkl.d)

\* C7: when persisting the record or the embedding fails, add_person reports
\* failure instead of returning an id, and the store then holds both halves
\* of the enrollment or neither.
C7_FailedEnrollmentLeavesNoHalf ==
  \A c \in 1..Len(log) :
    (log[c].proc \in Classes /\ log[c].fault # "none") =>
      /\ log[c].res \in {"raised", "minus1"}
      /\ HasRecord(c) <=> HasEmbedding(c)

\* C8: no two persisted records share an id, and a record written by a later
\* call has a greater id than every record written by an earlier call.
C8_IdsUniqueAndIncreasing ==
  \A i, j \in 1..Len(Rows) :
    /\ i # j => Rows[i].id # Rows[j].id
    /\ Rows[i].registration_date < Rows[j].registration_date
         => Rows[i].id < Rows[j].id

\* the calls so far ran one after the other, none beside a constructor of
\* the store instance
Sequential == \A c \in 1..Len(log) : log[c].alone

\* C9: after a sequence of enrollment calls run one after the other (no
\* constructor running beside them, no recognizer process started), every
\* record and embedding that a completed call made durable is still stored,
\* unchanged, also when a call goes through an instance constructed before
\* an earlier call enrolled.
C9_DurableEnrollmentsKept ==
  (Quiescent /\ Sequential /\ rec_pc = "off") =>
    \A c \in 1..Len(log) :
      Completed(c) =>
        /\ \E i \in 1..Len(Rows) :
             Rows[i] = [id |-> log[c].id, person |-> log[c].person,
                        registration_date |-> c]
        /\ pkl.st = "ok"
        /\ log[c].id \in DictKeys(pkl.d)
        /\ DictGet(pkl.d, log[c].id) = log[c].vec

\* C10: a snapshot taken by a starting recognizer while enrollment calls run
\* never fails, and never holds an embedding without its record.
C10_SnapshotNeverTorn ==
  /\ rec_pc # "crashed"
  /\ rec_pc = "ready" => Len(known_names) = Len(known_person_ids)

\* the (id, embedding) pairs of a dict of encodings
Pairs(d) == {<<d[i].id, d[i].vec>> : i \in 1..Len(d)}

\* the pairs durable in the embedding store
DurablePairs == IF pkl.st = "ok" THEN Pairs(pkl.d) ELSE {}

\* the pairs get_all_encodings of an instance returns
Snapshot(d) ==
  {<<PersonIdsList(d)[i], EncodingsList(d)[i]>> : i \in 1..Len(d)}

\* C11: whenever no enrollment call is running, get_all_encodings of a
\* constructed DataManager (the one of a running recognizer) returns exactly
\* the pairs durable in the embedding store at that time, also those made
\* durable after the instance was constructed.
C11_SnapshotIsDurablePairs ==
  (Quiescent /\ rec_pc \in {"constructed", "ready"}) =>
    Snapshot(rec_enc) = DurablePairs

\* C12: in every reachable state of the persisted store every person_id of
\* the embedding store has a record in the record store.
C12_EmbeddingsHaveRecords ==
  pkl.st = "ok" => DictKeys(pkl.d) \subseteq RowIds

\* C13: on a store that no enrollment call is writing, load_known_faces ends
\* as a successful load only when the ids of the embedding store and the ids
\* of the record store are the same; an id present on one side only is
\* surfaced, the load does not go on as if the gallery were consistent.
C13_LoadSurfacesInconsistency ==
  [][(/\ Quiescent
      /\ Snapshot(rec_enc) = DurablePairs
      /\ rec_pc = "constructed"
      /\ rec_pc' = "ready")
       => DictKeys(rec_enc) = RowIds]_vars

\* the ids get_person_by_id is asked for
IdsAsked == 0..(MaxCalls + 1)

\* C14: on the record store of a constructed instance get_person_by_id
\* returns a record of the store with the given id when there is one, and
\* None for every other id, also on a store without records; the file it
\* reads exists, so the read does not raise.
C14_GetPersonByIdOrNone ==
  /\ (\/ kind \in Classes /\ pc["inst"] \notin {"init_csv", "load_encodings"}
      \/ rec_pc \in {"constructed", "ready"}) => csv.exists
  /\ csv.exists =>
       \A id \in IdsAsked :
         IF id \in RowIds
         THEN /\ Len(get_person_by_id(id)) = 1
              /\ get_person_by_id(id)[1].id = id
              /\ \E i \in 1..Len(Rows) :
                   get_person_by_id(id)[1] = ReadRow(Rows, i)
         ELSE get_person_by_id(id) = <<>>

\* a recognizer has loaded the id 1 from a record store without records:
\* get_person_by_id(1) returned None and the load went on
C14_Witness ==
  /\ rec_pc = "ready"
  /\ known_person_ids = <<1>>
  /\ known_names = <<>>
  /\ csv.exists
  /\ Rows = <<>>
  /\ get_person_by_id(1) = <<>>

\* C15: once the enrollment calls made so far have completed, one after the
\* other and without a failed write, get_person_count equals the number of
\* records of the record store, for the instance a process holds and for
\* the fresh instance of view_registered_persons.
C15_CountIsNumberOfRecords ==
  (/\ Quiescent
   /\ Sequential
   /\ rec_pc = "off"
   /\ kind \in Classes
   /\ \A c \in 1..Len(log) : Completed(c)) =>
    /\ get_person_count(mem["inst"]) = Len(Rows)
    /\ get_person_count(_load_encodings) = Len(Rows)

----------------------------------------------------------------------------
(* Properties of the frame processor and of the two modes *)

\* the frame read last has gone through recognize_faces_in_frame and
\* draw_face_info
Processed == run_pc = "show" /\ (frame_count - 1) % 2 = 0

\* C16: for every processed frame the boxes and the results returned have
\* the length of the detection output and its order: box i is the box
\* detected i-th and result i is the match of the face in it; draw_face_info
\* pairs box i with result i.
C16_OutputsFollowDetection ==
  Processed =>
    /\ Len(face_locations) = Len(detections)
    /\ Len(face_info_list) = Len(detections)
    /\ Len(drawn) = Len(detections)
    /\ \A i \in 1..Len(detections) :
         /\ face_locations[i] = detections[i].box
         /\ face_info_list[i] = MatchFace(detections[i].enc).info
         /\ drawn[i].info = face_info_list[i]

\* a processed frame with an unknown face detected first and Asha second
C16_Witness ==
  /\ Processed
  /\ Len(detections) = 2
  /\ detections[1].box # detections[2].box
  /\ face_info_list[1].name = Str("Unknown Person")
  /\ face_info_list[2].name = Str("Asha")

\* the list of boxes of web_deploy.recognize_faces_in_frame after
\* `face_locations = [(top*4, right*4, bottom*4, left*4) for ...]`
ScaledLocations(locations) ==
  [i \in 1..Len(locations) |-> ScaleUp(locations[i])]

Times4(box) == <<4 * box[1], 4 * box[2], 4 * box[3], 4 * box[4]>>

\* C17: every box detected on the downscaled frame is drawn with each of
\* its four coordinates multiplied by 4, in the same coordinate order, by
\* draw_face_info (interactive mode) and by the scaling of web_deploy
\* (streamed mode); (10,20,30,40) becomes (40,80,120,160).
C17_BoxesScaledByFour ==
  /\ Processed =>
       \A i \in 1..Len(detections) :
         /\ drawn[i].box = Times4(detections[i].box)
         /\ detections[i].box = <<10, 20, 30, 40>>
              => drawn[i].box = <<40, 80, 120, 160>>
  /\ \A f \in Frames :
       LET locations == [i \in 1..Len(f) |-> f[i].box]
       IN  /\ Len(ScaledLocations(locations)) = Len(locations)
           /\ \A i \in 1..Len(locations) :
                ScaledLocations(locations)[i] = Times4(locations[i])

\* a processed frame on which the box (10,20,30,40) was detected second
C17_Witness ==
  /\ Processed
  /\ Len(detections) = 2
  /\ detections[2].box = <<10, 20, 30, 40>>
  /\ drawn[2].box = <<40, 80, 120, 160>>

\* C18: once run_recognition has opened the camera, every way of leaving it
\* has released the camera and closed the windows.
C18_EveryExitReleases ==
  run_pc \in {"stopped", "aborted", "returned"} =>
    /\ cap # "open"
    /\ ~windows

\* C19: a consumer is inside get_frame's critical section (about to open or
\* read the camera) only while it holds camera_lock, so at most one
\* consumer reads the camera at any time.
C19_ReadOnlyUnderLock ==
  /\ \A c \in Consumers : spc[c] \in {"locked", "read"} => camera_lock = c
  /\ Cardinality({c \in Consumers : spc[c] \in {"locked", "read"}}) <= 1

\* one consumer is reading the camera while two others wait for the lock
C19_Witness ==
  /\ \E c \in Consumers : spc[c] = "read" /\ camera_lock = c
  /\ Cardinality({c \in Consumers : spc[c] = "get_frame"}) >= 2

\* C20: in streamed mode the consumer whose read of the camera failed ends
\* its stream: it does not go on to ask for another frame.
C20_FailedReadEndsStream ==
  \A c \in Consumers : sframe[c] = "failed" => spc[c] \in {"got", "closed"}

----------------------------------------------------------------------------
(* Claims about the commands and the errors of interactive mode *)

\* C21: an error raised by detection or embedding while a frame is
\* processed is absorbed for that frame: run_recognition never leaves its
\* loop because of it.
C21_ProcessingErrorAbsorbed ==
  run_pc \in {"finally", "stopped"} => leaving # "error"

\* C22: run_recognition reports the camera unavailable and returns only
\* when no index of the fallback list 0, 1, 2 opens; when some index opens
\* it streams from the first one that does.
C22_FallbackListTried ==
  /\ (run_pc = "returned" /\ cap = "failed") => devices = {}
  /\ (run_pc = "setup" /\ cap = "open") => devices # {}

\* the pairs of the gallery the matcher compares a probe with
GalleryPairs ==
  {<<known_person_ids[i], known_encodings[i]>> : i \in 1..Len(known_encodings)}

\* C23: the 'r' key keeps the loop running with the camera open, and the
\* gallery it leaves is a fresh snapshot of the store: exactly the people
\* durable at the time of the reload, those enrolled since the recognizer
\* started included.
C23_ReloadIsFreshSnapshot ==
  [][Loop_Key("r") =>
       /\ run_pc' = "read"
       /\ cap' = "open"
       /\ Len(known_person_ids') = Len(known_encodings')
       /\ GalleryPairs' = DurablePairs']_vars

\* C24: the 't' key keeps the loop running and leaves one of the presets 0.6
\* and 0.9 in force, and a second 't' would restore the tolerance in force
\* before the first, whatever tolerance the recognizer was constructed with.
C24_ToggleTwiceRestores ==
  [][Loop_Key("t") =>
       /\ run_pc' = "read"
       /\ tolerance' \in {6, 9}
       /\ Toggled(tolerance') = tolerance]_vars

\* C27: the frames acquired by run_recognition are counted by frame_count,
\* and the frame processor ran on exactly those with an even zero-based
\* index: on the first, never on two consecutive frames and never skipping
\* two, whatever keys were pressed.
C27_EverySecondFrame ==
  /\ run_pc \in {"read", "process", "key"} => Len(frames_processed) = frame_count
  /\ \A i \in 1..Len(frames_processed) :
       frames_processed[i] <=> (i - 1) % 2 = 0
  /\ \A i \in 1..(Len(frames_processed) - 1) :
       frames_processed[i] # frames_processed[i + 1]

\* three frames were acquired, the first and the third were processed, and
\* a toggle and a reload were commanded in between
C27_Witness ==
  /\ frames_processed = <<TRUE, FALSE, TRUE>>
  /\ tolerance = 9
  /\ Len(known_names) > Len(known_person_ids)

----------------------------------------------------------------------------
(* Claims about the consumers of the stream *)

\* C25: a consumer that disconnects stops its own pull loop and nothing
\* else: the step changes neither the camera, nor the lock, nor another
\* consumer; a disconnected consumer never holds camera_lock, so the others
\* can go on pulling; and the shared camera, once open, is not closed while
\* consumers remain.
C25_DisconnectStopsOnlyItsLoop ==
  /\ [](\A c \in Consumers :
          spc[c] = "closed" => (camera_lock # c /\ camera = "open"))
  /\ [][\A c \in Consumers :
          (spc[c] # "closed" /\ spc'[c] = "closed") =>
            /\ camera' = camera
            /\ camera_lock' = camera_lock
            /\ sframe' = sframe
            /\ \A o \in Consumers \ {c} : spc'[o] = spc[o]]_vars
  /\ [][camera = "open" => camera' = "open"]_vars

\* one consumer has disconnected and another one reads the camera
C25_Witness ==
  \E c, o \in Consumers :
    /\ spc[c] = "closed"
    /\ spc[o] = "read"
    /\ camera_lock = o
    /\ sframe[o] = "frame"

\* C28: camera_lock is held for the frame read only: a consumer that runs
\* the downscale, detection, embedding and matching of
\* recognize_faces_in_frame, or the JPEG encoding, or waits at its yield,
\* does not hold camera_lock.
C28_NoLockWhileProcessing ==
  \A c \in Consumers :
    spc[c] \in {"got", "encode", "yield"} => camera_lock # c

\* one consumer reads the camera while another runs recognition on its
\* frame and a third encodes its frame
C28_Witness ==
  \E a, b, c \in Consumers :
    /\ spc[a] = "read" /\ camera_lock = a
    /\ spc[b] = "got" /\ sframe[b] = "frame"
    /\ spc[c] = "encode"

\* C30: generate_frames never finishes on its own, and while the camera
\* delivers frames and camera_lock is granted fairly every connected
\* consumer is yielded a frame again and again: each request for a frame
\* leads to a yield and each yield to the next request.
C30_EveryConsumerKeepsYielding ==
  \A c \in Consumers :
    /\ [](spc[c] # "closed")
    /\ (spc[c] = "get_frame") ~> (spc[c] = "yield")
    /\ (spc[c] = "yield") ~> (spc[c] = "get_frame")

\* all three consumers are connected; one is yielded its second frame while
\* the two others contend for the lock
C30_Witness ==
  \E c \in Consumers :
    /\ spc[c] = "yield"
    /\ \A o \in Consumers \ {c} : spc[o] = "get_frame" /\ sframe[o] = "frame"

----------------------------------------------------------------------------
(* Claims about the construction of a store instance *)

\* C26: a constructed instance has a record store file; the constructor
\* writes the header with no rows only when it found no file; when it finds
\* the record store it writes nothing, and once it has loaded an existing
\* embedding store get_person_count is the number of embeddings stored
\* there. No step of the constructor changes the embedding store.
C26_ConstructionKeepsStores ==
  /\ []((kind \in Classes /\ pc["inst"] = "idle") => csv.exists)
  /\ [][\A k \in Classes :
          Construct(k) =>
            /\ store' = store
            /\ csv.exists => pc'["inst"] = "load_encodings"]_vars
  /\ [][Construct_InitCsv => (csv' = HeaderOnly /\ pkl' = pkl)]_vars
  /\ [][Construct_LoadEncodings =>
          /\ csv.exists
          /\ store' = store
          /\ (pkl.st = "ok" /\ kind' \in Classes) =>
               /\ get_person_count(mem'["inst"]) = Len(pkl.d)
               /\ Pairs(mem'["inst"]) = Pairs(pkl.d)]_vars

\* an instance constructed on the stores the function interface has
\* enrolled two people into: it counts two people and the stores are as the
\* enrollments left them
C26_Witness ==
  /\ kind \in Classes
  /\ pc["inst"] = "idle"
  /\ ncalls = 2
  /\ \A c \in 1..Len(log) : log[c].proc = "fn" /\ log[c].res = "ok"
  /\ Len(Rows) = 2
  /\ pkl.st = "ok"
  /\ get_person_count(mem["inst"]) = 2
  /\ mem["inst"] = pkl.d

----------------------------------------------------------------------------
(* Claims about the capture loops of enrollment *)

\* C29: every capture loop of enrollment ends when no key is pressed: it
\* has read at most its maximum number of frames (that of register for
\* register, that of simple_register for simple_register, and no more than
\* the larger of the two for any other loop), a capture function that has
\* returned has released the camera, and at most the three indices 0, 1, 2
\* are opened.
C29_CaptureLoopsBounded ==
  /\ keys_pressed = {} =>
       frames_read <= IF cpt_fn = "register" THEN MaxAttemptsRegister
                      ELSE MaxAttemptsSimple
  /\ cpt_pc = "done" => cpt_cap # "open"
  /\ Len(opened) <= Cardinality(CameraIndices)

----------------------------------------------------------------------------
(* Claims about the confidence and the lists of the recognizer *)

\* C32: the confidence of an Identified result is exactly 1 - min_distance,
\* without clamping: when the tolerance is above 1 and the minimum distance
\* d is above 1 and within the tolerance, the result is Identified with the
\* negative confidence 1 - d.
C32_ConfidenceNotClamped ==
  (MatchedOnce /\ face_info.st = "ok" /\ known_encodings # <<>>
     /\ MinDistance <= tolerance) =>
    /\ face_info.info.name # Str("Unknown Person")
    /\ face_info.info.confidence = One - MinDistance
    /\ MinDistance > One => face_info.info.confidence < 0

\* under the tolerance 1.2 a probe at distance 1.2 from the only gallery
\* entry was identified with the confidence -0.2
C32_Witness ==
  /\ tolerance = 12
  /\ face_info.st = "ok"
  /\ Len(known_encodings) = 1
  /\ MinDistance = 12
  /\ face_info.info.name # Str("Unknown Person")
  /\ face_info.info.confidence = 0 - 2

\* C33: after the initial load and any number of reloads the lists of the
\* recognizer are aligned: the three lists of details are as long as
\* known_encodings and known_person_ids, and entry i of known_names is the
\* name of the person with the id known_person_ids[i].
C33_ListsStayAligned ==
  rec_pc = "ready" =>
    /\ Len(known_person_ids) = Len(known_encodings)
    /\ Len(known_names) = Len(known_encodings)
    /\ Len(known_classes) = Len(known_encodings)
    /\ Len(known_roll_numbers) = Len(known_encodings)
    /\ \A i \in 1..Len(known_person_ids) :
         /\ get_person_by_id(known_person_ids[i]) # <<>>
         /\ i <= Len(known_names) =>
              known_names[i] = get_person_by_id(known_person_ids[i])[1].name

----------------------------------------------------------------------------
(* Claims about concurrent enrollment *)

\* C34: after two enrollment calls made by different processes, however
\* their steps interleave, both enrollments are durable: each call's record
\* is stored under the id the call returned, the two ids differ, and the
\* embedding store maps each id to the embedding passed in the same call.
C34_ConcurrentEnrollmentsBound ==
  (Quiescent /\ rec_pc = "off" /\ ncalls = 2 /\ Completed(1) /\ Completed(2)
     /\ (log[1].proc = "fn") # (log[2].proc = "fn")) =>
    /\ log[1].id # log[2].id
    /\ \A c \in 1..2 :
         /\ \E i \in 1..Len(Rows) :
              Rows[i] = [id |-> log[c].id, person |-> log[c].person,
                         registration_date |-> c]
         /\ pkl.st = "ok"
         /\ log[c].id \in DictKeys(pkl.d)
         /\ DictGet(pkl.d, log[c].id) = log[c].vec

----------------------------------------------------------------------------
(* Claims about the cameras *)

\* C35: in streamed mode init_camera creates at most one capture handle,
\* however the consumers that start together interleave: the camera is open
\* exactly when that one handle has been created, and every consumer that
\* reads does so with the handle created.
C35_CameraOpenedOnce ==
  /\ ncaptures <= 1
  /\ camera = "open" <=> ncaptures = 1
  /\ \A c \in Consumers : spc[c] \in {"read", "got", "encode", "yield"}
       => camera = "open"

\* the three consumers have each read a frame, from one capture handle
C35_Witness ==
  /\ ncaptures = 1
  /\ \A c \in Consumers : sframe[c] = "frame"

\* C37: in register.capture_face_encoding, once ESC has ended the capture on
\* an opened camera, no further camera index is opened and no encoding is
\* returned.
C37_EscEndsCapture ==
  [][(cpt_fn = "register" /\ "esc" \in keys_pressed) =>
       /\ opened' = opened
       /\ face_encoding' = "none"]_vars

\* C36: on a streamed frame whose detected boxes differ, every rectangle
\* and label drawn at a box carries the name and the colour of the match
\* result of the face in that box, never those of another face of the
\* frame.
C36_BoxLabelledWithOwnResult ==
  (\A i, j \in 1..Len(sdetections) :
     i # j => sdetections[i].box # sdetections[j].box) =>
    \A k \in 1..Len(overlay) :
      \A i \in 1..Len(sdetections) :
        overlay[k].box = ScaleUp(sdetections[i].box) =>
          /\ overlay[k].name = WebName(sdetections[i].enc)
          /\ overlay[k].color = WebColor(WebName(sdetections[i].enc))

\* C38: once every consumer has disconnected, the capture handle opened by
\* init_camera is eventually released.
C38_CameraEventuallyReleased ==
  (camera = "open" /\ \A c \in Consumers : spc[c] = "closed")
    ~> (camera # "open")

----------------------------------------------------------------------------
(* Claims about the effects of the frame processors *)

\* C31: processing a frame, in interactive and in streamed mode, changes
\* neither the gallery (embeddings, ids, names, classes, roll numbers), nor
\* the tolerance, nor the encodings held by the data managers, nor the two
\* stores; so processing the same frame again gives the boxes and results
\* the step itself gave.
C31_ProcessingHasNoSideEffect ==
  [][/\ Loop_Process =>
          /\ gallery' = gallery
          /\ tolerance' = tolerance
          /\ rec_enc' = rec_enc
          /\ store' = store
          /\ run_pc' = "show" /\ frames_processed'[Len(frames_processed')] =>
               /\ face_locations' =
                    (recognize_faces_in_frame(detections).face_locations)'
               /\ face_info_list' =
                    (recognize_faces_in_frame(detections).face_info)'
     /\ \A c \in Consumers :
          (spc[c] = "got" /\ spc'[c] = "encode") =>
            /\ store' = store
            /\ mem' = mem
            /\ overlay' = web_recognize_faces_in_frame(sdetections')]_vars

\* the interactive processor has identified Asha on the third frame
\* acquired, the second one it processed
C31_Witness ==
  /\ Processed
  /\ frames_processed = <<TRUE, FALSE, TRUE>>
  /\ Len(detections) >= 1
  /\ face_info_list[1].name = Str("Asha")

====
